---- MODULE Spec2Model ----
(***************************************************************************)
(* Heikin Ashi screener (src/app.py).                                      *)
(*                                                                         *)
(* Numbers.  pandas holds float64.  Every number of the model is a         *)
(* fixed-point integer counting units of 1/Scale, Scale a power of two     *)
(* large enough that the divisions by 4 and by 2 of heikin_ashi are exact  *)
(* for a frame of MaxRows rows.  The prices drawn are small integers, so    *)
(* all values are dyadic rationals that float64 represents exactly: the    *)
(* fixed-point result is the float64 result.  NaN is a value of its own     *)
(* with the IEEE/pandas rules: arithmetic on NaN gives NaN, a comparison   *)
(* with NaN is False, max/min over a row skip NaN, dropna removes it.      *)
(***************************************************************************)
EXTENDS Integers, Sequences, FiniteSets, TLC

VARIABLES
    \* ---- unit harness: one frame through heikin_ashi / analyze_stock ----
    u_pc,           \* "input" | "transformed" | "analysed" ("idle" in Spec)
    u_df,           \* the raw frame handed to the functions
    u_ha,           \* heikin_ashi(u_df), <<>> before the call
    u_result,       \* analyze_stock(symbol, u_df), or None
    \* ---- main script (lines 140-282) ----
    pc,             \* "start" | "loop" | "done" ("idle" in SpecUnit)
    test_mode,      \* st.checkbox (line 145)
    symbols_to_check,
    all_data,       \* fetch_all_data's return value (None on exception)
    results,        \* the list built by the scan loop
    idx,            \* position of the for loop in symbols_to_check (1-based)
    attempts,       \* history: how many times analyze_stock ran per symbol
    results_data    \* rows of the result table (lines 183-194)

vars == <<u_pc, u_df, u_ha, u_result, pc, test_mode, symbols_to_check,
          all_data, results, idx, attempts, results_data>>

u_vars == <<u_pc, u_df, u_ha, u_result>>
m_vars == <<pc, test_mode, symbols_to_check, all_data, results, idx,
            attempts, results_data>>

-----------------------------------------------------------------------------
\* Bounds

\* longest frame of the unit harness
MaxRows == 4
\* number of symbols of the built-in list that the scan model keeps
NSym == 2

\* analyze_stock refuses a frame of fewer rows than this (line 87)
MinFrameRows == 4
\* analyze_stock refuses fewer usable candles than this (line 103)
MinCandles == 3
\* ha.tail(3) (line 107)
TailLen == 3

\* raw prices of the unit harness and of the scan
Prices == {1, 2}
ScanPrices == {1, 2, 3}

RECURSIVE Pow2(_)
Pow2(n) == IF n = 0 THEN 1 ELSE 2 * Pow2(n - 1)

\* ha_open[i] has i+2 fractional bits at most (0-based i)
Scale == Pow2((IF MaxRows > MinFrameRows THEN MaxRows ELSE MinFrameRows) + 1)

-----------------------------------------------------------------------------
\* float64 with NaN

NaN == -1
None == [none |-> TRUE]

Price(p) == p * Scale

Add(a, b) == IF a = NaN \/ b = NaN THEN NaN ELSE a + b
DivBy(a, k) == IF a = NaN THEN NaN ELSE a \div k
Gt(a, b) == a # NaN /\ b # NaN /\ a > b

\* the element of a one-element set: Only({F(x) : x \in {e}}) is F(e) with e
\* evaluated once
Only(S) == CHOOSE x \in S : TRUE

SetMax(S) == CHOOSE x \in S : \A y \in S : y <= x
SetMin(S) == CHOOSE x \in S : \A y \in S : x <= y
\* DataFrame.max(axis=1) / .min(axis=1): skipna=True
RowMax(S) == IF S \ {NaN} = {} THEN NaN ELSE SetMax(S \ {NaN})
RowMin(S) == IF S \ {NaN} = {} THEN NaN ELSE SetMin(S \ {NaN})

-----------------------------------------------------------------------------
\* heikin_ashi (lines 50-69).  df is a sequence of rows
\* [Date, Open, High, Low, Close]; the result adds the HA columns.

HA_Close(df) ==
    [i \in 1..Len(df) |->
        DivBy(Add(Add(Add(df[i].Open, df[i].High), df[i].Low), df[i].Close), 4)]

HaOpenSeed(df) == DivBy(Add(df[1].Open, df[1].Close), 2)

\* mutant: the previous smoothed open is left out of the average
HaOpenNext_FromCloseOnly(prev_open, prev_close) ==
    DivBy(Add(prev_close, prev_close), 2)

HaOpenNext(prev_open, prev_close) == DivBy(Add(prev_open, prev_close), 2)

\* lines 58-60: the list ha_open grows by one entry per iteration
RECURSIVE HaOpenLoop(_, _, _)
HaOpenLoop(ha_open, ha_close, n) ==
    IF Len(ha_open) >= n THEN ha_open
    ELSE Only({HaOpenLoop(longer, ha_close, n) :
                longer \in {Append(ha_open,
                                   HaOpenNext(ha_open[Len(ha_open)],
                                              ha_close[Len(ha_open)]))}})

HA_Open(df, ha_close) == HaOpenLoop(<<HaOpenSeed(df)>>, ha_close, Len(df))

\* mutant: the smoothed open is left out of the row maximum
HA_High_WithoutOpen(high, ha_open, ha_close) == RowMax({high, ha_close})

HA_High(high, ha_open, ha_close) == RowMax({high, ha_open, ha_close})
HA_Low(low, ha_open, ha_close) == RowMin({low, ha_open, ha_close})
Is_Green(ha_open, ha_close) == Gt(ha_close, ha_open)

\* lines 62-67: the columns put together
HaFrame(df, c, o) ==
    [i \in 1..Len(df) |->
        [Date |-> df[i].Date, Open |-> df[i].Open, High |-> df[i].High,
         Low |-> df[i].Low, Close |-> df[i].Close,
         HA_Close |-> c[i], HA_Open |-> o[i],
         HA_High |-> HA_High(df[i].High, o[i], c[i]),
         HA_Low |-> HA_Low(df[i].Low, o[i], c[i]),
         Is_Green |-> Is_Green(o[i], c[i])]]

heikin_ashi(df) ==
    Only({Only({HaFrame(df, c, o) : o \in {HA_Open(df, c)}}) :
            c \in {HA_Close(df)}})

-----------------------------------------------------------------------------
\* analyze_stock (lines 74-134).
\* A frame is [columns, rows].  all_data is None, or [multi, data]: with a
\* MultiIndex, data maps each downloaded ticker to its frame; without, data
\* is the single frame.

RequiredColumns == {"Open", "High", "Low", "Close"}

\* lines 76-85: all_data.xs(symbol, axis=1, level=0) raises KeyError for a
\* ticker that is not a column; the except branch returns None.
ExtractionFails(symbol, data) ==
    data.multi /\ symbol \notin DOMAIN data.data

Extract(symbol, data) ==
    IF data.multi THEN data.data[symbol] ELSE data.data

\* line 101: ha.dropna(subset=['HA_Close', 'HA_Open'])
IsValidCandle(row) == row.HA_Close # NaN /\ row.HA_Open # NaN
DropNa(ha) == SelectSeq(ha, IsValidCandle)

\* line 107: ha.tail(3)
TailRows(s, k) == IF Len(s) <= k THEN s ELSE SubSeq(s, Len(s) - k + 1, Len(s))

\* line 110: recent.sort_index(), ascending by date (insertion sort)
RECURSIVE InsertByDate(_, _)
InsertByDate(row, sorted) ==
    IF sorted = <<>> THEN <<row>>
    ELSE IF row.Date < Head(sorted).Date THEN <<row>> \o sorted
    ELSE Only({<<Head(sorted)>> \o InsertByDate(row, rest) :
                rest \in {Tail(sorted)}})

RECURSIVE SortIndex(_)
SortIndex(s) ==
    IF s = <<>> THEN <<>>
    ELSE Only({InsertByDate(s[Len(s)], sorted) :
                sorted \in {SortIndex(SubSeq(s, 1, Len(s) - 1))}})

\* lines 113-114
Yesterday(recent) == recent[Len(recent)]
DayBefore(recent) == recent[Len(recent) - 1]

\* line 126
ConditionMet(yesterday, day_before) ==
    (yesterday.Is_Green = TRUE) /\ (day_before.Is_Green = FALSE)

\* line 87
TooShort(rows) == Len(rows) = 0 \/ Len(rows) < MinFrameRows

\* line 103
TooFewCandles(ha) == Len(ha) < MinCandles

\* lines 117-123 (the rounded ha_open / ha_close lists serve the detail
\* expander only and are left out)
DebugInfo(symbol, recent) ==
    [symbol |-> symbol,
     dates |-> [i \in 1..Len(recent) |-> recent[i].Date],
     is_green |-> [i \in 1..Len(recent) |-> recent[i].Is_Green]]

\* lines 106-134, on the candles left by dropna
Decide(symbol, ha, recent) ==
    IF ConditionMet(Yesterday(recent), DayBefore(recent))
    THEN [symbol |-> symbol, ha |-> ha, debug |-> DebugInfo(symbol, recent)]
    ELSE None

\* lines 97-104
Candles(symbol, df) ==
    Only({IF TooFewCandles(ha) THEN None
          ELSE Only({Decide(symbol, ha, recent) :
                      recent \in {SortIndex(TailRows(ha, TailLen))}}) :
            ha \in {DropNa(heikin_ashi(df.rows))}})

analyze_stock(symbol, data) ==
    IF ExtractionFails(symbol, data) THEN None
    ELSE Only({IF TooShort(df.rows) THEN None
               ELSE IF RequiredColumns \ df.columns # {} THEN None
               ELSE Candles(symbol, df) :
                 df \in {Extract(symbol, data)}})

-----------------------------------------------------------------------------
\* Inputs.

NaNRow == [Open |-> NaN, High |-> NaN, Low |-> NaN, Close |-> NaN]

\* bars with low <= min(open, close) <= max(open, close) <= high
ValidBars(P) ==
    {b \in [Open : P, High : P, Low : P, Close : P] :
        /\ b.Low <= b.Open /\ b.Low <= b.Close
        /\ b.Open <= b.High /\ b.Close <= b.High}

Scaled(b) ==
    IF b = NaNRow THEN NaNRow
    ELSE [Open |-> Price(b.Open), High |-> Price(b.High),
          Low |-> Price(b.Low), Close |-> Price(b.Close)]

\* the trading days of the download window are the row numbers
Dated(s) ==
    [i \in 1..Len(s) |->
        [Date |-> i, Open |-> s[i].Open, High |-> s[i].High,
         Low |-> s[i].Low, Close |-> s[i].Close]]

UnitRowSet == {Scaled(b) : b \in ValidBars(Prices)} \cup {NaNRow}

UnitFrames ==
    UNION {{Dated(s) : s \in [1..n -> UnitRowSet]} : n \in 0..MaxRows}

Frame(rows) == [columns |-> RequiredColumns, rows |-> rows]
Single(df) == [multi |-> FALSE, data |-> df]

-----------------------------------------------------------------------------
\* Unit harness: heikin_ashi and analyze_stock applied to one frame.

SYMBOLS ==
    <<"A2A.MI", "AMP.MI", "BAMI.MI", "BC.MI", "BGN.MI", "BMPS.MI", "BPE.MI",
      "BMED.MI", "BST.MI", "CE.MI", "CPR.MI", "DIA.MI", "ENEL.MI", "ENI.MI",
      "ERG.MI", "FBK.MI", "GEO.MI", "IG.MI", "INRG.MI", "ISP.MI", "IVG.MI",
      "LDO.MI", "MB.MI", "MONC.MI", "NEXI.MI", "PRY.MI", "PST.MI", "RACE.MI",
      "REC.MI", "SFER.MI", "SPM.MI", "STLAM.MI", "STMMI.MI", "TES.MI",
      "TEN.MI", "TGYM.MI", "TIT.MI", "TRN.MI", "UCG.MI", "UNI.MI">>

MainIdle ==
    /\ pc = "idle" /\ test_mode = FALSE /\ symbols_to_check = <<>>
    /\ all_data = None /\ results = <<>> /\ idx = 0
    /\ attempts = <<>> /\ results_data = <<>>

UnitInit ==
    /\ u_pc = "input"
    /\ u_df \in UnitFrames
    /\ u_ha = <<>>
    /\ u_result = None
    /\ MainIdle

\* heikin_ashi(df) on a non-empty frame
UnitTransform ==
    /\ u_pc = "input"
    /\ Len(u_df) >= 1
    /\ u_ha' = heikin_ashi(u_df)
    /\ u_pc' = "transformed"
    /\ UNCHANGED <<u_df, u_result>>
    /\ UNCHANGED m_vars

\* analyze_stock(symbol, all_data) on a single-ticker download
UnitAnalyze ==
    /\ u_pc \in {"input", "transformed"}
    /\ u_result' = analyze_stock(SYMBOLS[1], Single(Frame(u_df)))
    /\ u_pc' = "analysed"
    /\ UNCHANGED <<u_df, u_ha>>
    /\ UNCHANGED m_vars

UnitNext == UnitTransform \/ UnitAnalyze

SpecUnit == UnitInit /\ [][UnitNext]_vars

-----------------------------------------------------------------------------
\* Properties of heikin_ashi and analyze_stock (SpecUnit).

IsMissing(row) ==
    row.Open = NaN \/ row.High = NaN \/ row.Low = NaN \/ row.Close = NaN
NoMissing(df) == \A i \in 1..Len(df) : ~IsMissing(df[i])
HasValue(row) == ~IsMissing(row)
\* the bars that are left when the rows with missing values are dropped
UsableRows(df) == SelectSeq(df, HasValue)

OhlcOrdered(row) ==
    /\ row.Low <= row.Open /\ row.Low <= row.Close
    /\ row.Open <= row.High /\ row.Close <= row.High

Transformed == u_ha # <<>>

\* C1: on a series of n >= 1 bars without missing values heikin_ashi returns
\* n bars with haClose = (O+H+L+C)/4, haOpen[0] = (O[0]+C[0])/2,
\* haOpen[i] = (haOpen[i-1]+haClose[i-1])/2, haHigh = max(H, haOpen, haClose),
\* haLow = min(L, haOpen, haClose) and Is_Green = (haClose > haOpen).
C1_Recurrence ==
    (Transformed /\ NoMissing(u_df)) =>
        /\ Len(u_ha) = Len(u_df)
        /\ \A i \in 1..Len(u_df) :
            LET r == u_df[i]
                h == u_ha[i]
            IN  /\ h.Date = r.Date
                /\ 4 * h.HA_Close = r.Open + r.High + r.Low + r.Close
                /\ i = 1 => 2 * h.HA_Open = r.Open + r.Close
                /\ i > 1 =>
                    2 * h.HA_Open = u_ha[i - 1].HA_Open + u_ha[i - 1].HA_Close
                /\ h.HA_High \in {r.High, h.HA_Open, h.HA_Close}
                /\ h.HA_High >= r.High /\ h.HA_High >= h.HA_Open
                /\ h.HA_High >= h.HA_Close
                /\ h.HA_Low \in {r.Low, h.HA_Open, h.HA_Close}
                /\ h.HA_Low <= r.Low /\ h.HA_Low <= h.HA_Open
                /\ h.HA_Low <= h.HA_Close
                /\ h.Is_Green = (h.HA_Close > h.HA_Open)

\* a full-length series without missing values whose candles are of both
\* colours and where a smoothed open lies outside the raw range
C1_Witness ==
    /\ Transformed /\ NoMissing(u_df) /\ Len(u_df) = MaxRows
    /\ \E i, j, k \in 2..Len(u_ha) :
        /\ u_ha[i].Is_Green /\ ~u_ha[j].Is_Green
        /\ u_ha[k].HA_Open > u_ha[k].High
        /\ u_ha[k].HA_Open # u_ha[k - 1].HA_Open

\* C3: when every raw bar has low <= min(open, close) <= max(open, close)
\* <= high, every smoothed bar has haLow <= min(haOpen, haClose) <=
\* max(haOpen, haClose) <= haHigh.
C3_HaOrdering ==
    (Transformed /\ \A i \in 1..Len(u_df) :
                        HasValue(u_df[i]) /\ OhlcOrdered(u_df[i])) =>
        \A i \in 1..Len(u_ha) :
            /\ u_ha[i].HA_Low <= u_ha[i].HA_Open
            /\ u_ha[i].HA_Low <= u_ha[i].HA_Close
            /\ u_ha[i].HA_Open <= u_ha[i].HA_High
            /\ u_ha[i].HA_Close <= u_ha[i].HA_High

\* valid raw bars where the smoothed open is above the raw high of one bar
\* and below the raw low of another
C3_Witness ==
    /\ Transformed
    /\ \A i \in 1..Len(u_df) : HasValue(u_df[i]) /\ OhlcOrdered(u_df[i])
    /\ \E i, j \in 1..Len(u_ha) :
        /\ u_ha[i].HA_Open > u_ha[i].High
        /\ u_ha[j].HA_Open < u_ha[j].Low

Analysed == u_pc = "analysed"
Matched == u_result # None

\* the returns of lines 88 and 104
SkippedForData(df) ==
    \/ TooShort(df)
    \/ TooFewCandles(DropNa(heikin_ashi(df)))

\* C2: with n >= 3 usable smoothed bars, analyze_stock reports a match
\* exactly when bar n-3 is not bullish and bar n-2 is bullish; bar n-1 has no
\* influence.  (1-based: bars n-2 and n-1 of n.)  Stated on the frames that
\* reach the decision of line 126, whose n candles are the ones left by
\* dropna.
C2_DecisionOnBarsBeforeToday ==
    (Analysed /\ ~SkippedForData(u_df)) =>
        LET sm == DropNa(heikin_ashi(u_df))
            n == Len(sm)
        IN  n >= 3 /\ (Matched <=> (~sm[n - 2].Is_Green /\ sm[n - 1].Is_Green))

\* C5: three usable bars are evaluated, a red bar n-3 followed by a green
\* bar n-2 is a match, and a symbol is skipped for lack of data only with
\* fewer than three usable bars.
C5_ThreeBarsEvaluated ==
    LET usable == UsableRows(u_df)
        sm == heikin_ashi(usable)
    IN  Analysed =>
            /\ (Len(usable) >= 3) => ~SkippedForData(u_df)
            /\ (/\ Len(usable) = 3
                /\ sm[1].HA_Close < sm[1].HA_Open
                /\ sm[2].HA_Close > sm[2].HA_Open) => Matched

\* C6: with missing values in the raw series only the offending bars are
\* dropped: if at least three valid bars remain, the smoothed series and the
\* decision come from all the valid bars, those after an offending bar
\* included; otherwise the symbol is skipped.
C6_OnlyOffendingBarsDropped ==
    LET usable == UsableRows(u_df)
        sm == heikin_ashi(usable)
        recent == TailRows(sm, TailLen)
    IN  (Analysed /\ ~NoMissing(u_df)) =>
            IF Len(usable) >= 3 /\ ConditionMet(Yesterday(recent), DayBefore(recent))
            THEN Matched /\ u_result.ha = sm
            ELSE ~Matched

\* C9: a reported symbol has an earlier pattern bar with haClose < haOpen
\* and a later pattern bar with haClose > haOpen; a flat bar followed by a
\* bullish bar is not reported.
C9_StrictlyRedThenGreen ==
    (Analysed /\ Matched) =>
        LET recent == TailRows(u_result.ha, TailLen)
            d == DayBefore(recent)
            y == Yesterday(recent)
        IN  d.HA_Close < d.HA_Open /\ y.HA_Close > y.HA_Open

-----------------------------------------------------------------------------
\* Main script (lines 140-282): one download for the whole list, then the
\* sequential scan loop, then the result table.

\* lines 147-151
SymbolsToCheck(mode) ==
    IF mode THEN <<SYMBOLS[1]>> ELSE SubSeq(SYMBOLS, 1, NSym)

SymbolSet(syms) == {syms[i] : i \in 1..Len(syms)}

Flat(p) == [Open |-> p, High |-> p, Low |-> p, Close |-> p]

\* What yf.download hands back for one ticker over a window of MinFrameRows
\* trading days: single-price bars (open = high = low = close), quiet at
\* the middle price until the last two days, the last day possibly still
\* missing; a ticker whose download failed (all NaN); a frame without the
\* OHLC columns.
ScanBarFrames ==
    {[i \in 1..MinFrameRows |->
        IF i <= MinFrameRows - 2 THEN Flat(2) ELSE s[i - (MinFrameRows - 2)]] :
            s \in [1..2 -> {Flat(p) : p \in ScanPrices}]}

ScanRowFrames ==
    ScanBarFrames
        \cup {[i \in 1..Len(f) |-> IF i = Len(f) THEN NaNRow ELSE f[i]] :
                f \in ScanBarFrames}
        \cup {[i \in 1..MinFrameRows |-> NaNRow]}

ScanFrames ==
    {Frame(Dated([i \in 1..Len(f) |-> Scaled(f[i])])) : f \in ScanRowFrames}
        \cup {[columns |-> {"Volume"},
               rows |-> Dated([i \in 1..MinFrameRows |-> Scaled(Flat(2))])]}

\* group_by='ticker': a MultiIndex over the tickers that came back (avail
\* maps a ticker to its frame, or to None when it is not among the
\* columns); a one-ticker request may also come back with plain columns.
MultiDownload(avail) ==
    [multi |-> TRUE,
     data |-> [s \in {t \in DOMAIN avail : avail[t] # None} |-> avail[s]]]

UnitIdle ==
    /\ u_pc = "idle" /\ u_df = <<>> /\ u_ha = <<>> /\ u_result = None

Init ==
    /\ UnitIdle
    /\ pc = "start"
    /\ test_mode \in BOOLEAN
    /\ symbols_to_check = SymbolsToCheck(test_mode)
    /\ all_data = None
    /\ results = <<>>
    /\ idx = 0
    /\ attempts = [s \in SymbolSet(SymbolsToCheck(test_mode)) |-> 0]
    /\ results_data = <<>>

\* mutant: the loop runs over symbols_to_check[1:]
FetchOk_LoopFromSecond ==
    /\ pc = "start"
    /\ \/ \E avail \in [SymbolSet(symbols_to_check) -> ScanFrames \cup {None}] :
            all_data' = MultiDownload(avail)
       \/ /\ Len(symbols_to_check) = 1
          /\ \E f \in ScanFrames : all_data' = Single(f)
    /\ results' = <<>>
    /\ idx' = 2
    /\ pc' = "loop"
    /\ UNCHANGED <<test_mode, symbols_to_check, attempts, results_data>>
    /\ UNCHANGED u_vars

\* lines 38-42, 154, 169: the download returns; results = []
FetchOk ==
    /\ pc = "start"
    /\ \/ \E avail \in [SymbolSet(symbols_to_check) -> ScanFrames \cup {None}] :
            all_data' = MultiDownload(avail)
       \/ /\ Len(symbols_to_check) = 1
          /\ \E f \in ScanFrames : all_data' = Single(f)
    /\ results' = <<>>
    /\ idx' = 1
    /\ pc' = "loop"
    /\ UNCHANGED <<test_mode, symbols_to_check, attempts, results_data>>
    /\ UNCHANGED u_vars

\* lines 43-45, 156-157: the download raises, fetch_all_data returns None
\* and the script reports the error; the loop is not entered
FetchRaises ==
    /\ pc = "start"
    /\ all_data' = None
    /\ pc' = "done"
    /\ UNCHANGED <<test_mode, symbols_to_check, results, idx, attempts,
                   results_data>>
    /\ UNCHANGED u_vars

\* mutant: results.insert(0, result)
AppendResult_Prepend(rs, result) ==
    IF result # None THEN <<result>> \o rs ELSE rs

\* lines 175-176
AppendResult(rs, result) ==
    IF result # None THEN Append(rs, result) ELSE rs

\* mutant: a symbol without a result ends the loop (the failure of one
\* symbol propagates out of the for statement)
AnalyzeNext_AbortsOnFailure ==
    /\ pc = "loop"
    /\ idx <= Len(symbols_to_check)
    /\ results' = AppendResult(results,
                               analyze_stock(symbols_to_check[idx], all_data))
    /\ attempts' = [attempts EXCEPT ![symbols_to_check[idx]] = @ + 1]
    /\ idx' = IF analyze_stock(symbols_to_check[idx], all_data) = None
              THEN Len(symbols_to_check) + 1
              ELSE idx + 1
    /\ UNCHANGED <<pc, test_mode, symbols_to_check, all_data, results_data>>
    /\ UNCHANGED u_vars

\* lines 172-176: one iteration of the for loop
AnalyzeNext ==
    /\ pc = "loop"
    /\ idx <= Len(symbols_to_check)
    /\ results' = AppendResult(results,
                               analyze_stock(symbols_to_check[idx], all_data))
    /\ attempts' = [attempts EXCEPT ![symbols_to_check[idx]] = @ + 1]
    /\ idx' = idx + 1
    /\ UNCHANGED <<pc, test_mode, symbols_to_check, all_data, results_data>>
    /\ UNCHANGED u_vars

\* lines 183-194: one table row per result, in the order of results
TableRow(r) ==
    LET debug == r.debug
        n == Len(debug.is_green)
    IN  [Simbolo |-> r.symbol,
         DataIeri |-> debug.dates[n],
         DataAltroIeri |-> debug.dates[n - 1],
         Ieri |-> IF debug.is_green[n] THEN "Verde" ELSE "Rosso",
         AltroIeri |-> IF debug.is_green[n - 1] THEN "Verde" ELSE "Rosso",
         Pattern |-> IF debug.is_green[n] /\ ~debug.is_green[n - 1]
                     THEN "SI" ELSE "NO"]

HasTwoDates(r) == Len(r.debug.dates) >= 2

\* mutant: the table is filled from reversed(results)
ResultsTable_Reversed(rs) ==
    LET kept == SelectSeq(rs, HasTwoDates)
    IN  [i \in 1..Len(kept) |-> TableRow(kept[Len(kept) + 1 - i])]

ResultsTable(rs) ==
    LET kept == SelectSeq(rs, HasTwoDates)
    IN  [i \in 1..Len(kept) |-> TableRow(kept[i])]

\* lines 179-198, 281-282: the loop is over, the table is shown
ShowResults ==
    /\ pc = "loop"
    /\ idx > Len(symbols_to_check)
    /\ results_data' = IF results # <<>> THEN ResultsTable(results) ELSE <<>>
    /\ pc' = "done"
    /\ UNCHANGED <<test_mode, symbols_to_check, all_data, results, idx,
                   attempts>>
    /\ UNCHANGED u_vars

Next == FetchOk \/ FetchRaises \/ AnalyzeNext \/ ShowResults

Spec == Init /\ [][Next]_vars

\* the script is one sequential run: each statement is followed by the next
FairSpec == Spec /\ WF_vars(Next)

-----------------------------------------------------------------------------
\* Properties of the scan (Spec, FairSpec).

Done == pc = "done"
Fetched == all_data # None
Scanned == SymbolSet(symbols_to_check)

ResultSymbols == [i \in 1..Len(results) |-> results[i].symbol]
TableSymbols == [i \in 1..Len(results_data) |-> results_data[i].Simbolo]

HasPattern(symbol) == analyze_stock(symbol, all_data) # None

\* the symbols of syms[1..k] that show the pattern, in the order of syms
RECURSIVE Matching(_, _)
Matching(syms, k) ==
    IF k = 0 THEN <<>>
    ELSE IF HasPattern(syms[k])
         THEN Append(Matching(syms, k - 1), syms[k])
         ELSE Matching(syms, k - 1)

PatternBars(r) == TailRows(r.ha, TailLen)
PctGreater(r1, r2) ==
    LET y1 == Yesterday(PatternBars(r1)).HA_Close
        d1 == DayBefore(PatternBars(r1)).HA_Close
        y2 == Yesterday(PatternBars(r2)).HA_Close
        d2 == DayBefore(PatternBars(r2)).HA_Close
    IN  (y1 - d1) * d2 > (y2 - d2) * d1

\* the list of the script is in lexical order up to its seventh entry
SymbolIndex(s) == CHOOSE i \in 1..Len(SYMBOLS) : SYMBOLS[i] = s
LexLess(a, b) == SymbolIndex(a) < SymbolIndex(b)

RECURSIVE IsSubsequence(_, _)
IsSubsequence(a, b) ==
    IF a = <<>> THEN TRUE
    ELSE IF b = <<>> THEN FALSE
    ELSE IF Head(a) = Head(b) THEN IsSubsequence(Tail(a), Tail(b))
    ELSE IsSubsequence(a, Tail(b))

\* C10: at every point of the loop the results are a subsequence of the
\* symbols scanned so far, hold a symbol at most once and only symbols for
\* which analyze_stock found the pattern; entries are only appended.
C10_ResultsSubsequenceAppendOnly ==
    /\ [](pc = "loop" =>
            /\ IsSubsequence(ResultSymbols,
                             SubSeq(symbols_to_check, 1, idx - 1))
            /\ \A i, j \in 1..Len(results) :
                    results[i].symbol = results[j].symbol => i = j
            /\ \A i \in 1..Len(results) :
                    results[i] = analyze_stock(results[i].symbol, all_data))
    /\ [][/\ Len(results') >= Len(results)
          /\ SubSeq(results', 1, Len(results)) = results
          /\ Len(results') <= Len(results) + 1]_vars

\* the loop after a symbol without the pattern and a later one with it
C10_Witness ==
    /\ pc = "loop"
    /\ idx > 2
    /\ Len(results) = 1
    /\ results[1].symbol = symbols_to_check[idx - 1]
    /\ ~HasPattern(symbols_to_check[1])

=============================================================================
